---- MODULE Spec2Model ----
(***************************************************************************)
(* Homework tracker (app.py): the three tables classes, students and       *)
(* homework_records, and the request handlers that write them.             *)
(*                                                                         *)
(* Every handler is one action.  Its effect is a pure operator from the    *)
(* committed database and the request to the committed database after the  *)
(* request and the response sent; the properties quantify over requests.   *)
(* A handler's statements run inside one MySQL (InnoDB) transaction, so    *)
(* only what is committed before an exception survives it.                 *)
(***************************************************************************)
EXTENDS Integers, Sequences, FiniteSets, TLC

\* ---------------------------------------------------------------- bounds
\* students.student_id and homework_records.hw_id are AUTO_INCREMENT
\* counters; a specification stops inserting once a counter passes its cap.
\* The homework workflow runs over one student and one record, the roster
\* over two of each.
HwMaxStudentId == 1
HwMaxHwId == 1
RosterMaxStudentId == 2
RosterMaxHwId == 2

\* ------------------------------------------------------- values and text
\* An absent form field / JSON key (Python None) and SQL NULL.
NoValue == "<none>"

\* date.today().isoformat(), the default of a missing hw_date.
Today == "2024-05-01"
Dates == {"2024-05-01", "2024-05-02"}

\* str.strip() on the texts the requests carry.
Strip(s) ==
    CASE s = " " -> ""
      [] s = " Alice" -> "Alice"
      [] s = " 9B" -> "9B"
      [] OTHER -> s

\* str.lower() / SQL LOWER() on the texts the requests carry.
Lower(s) ==
    CASE s = "YES" -> "yes"
      [] s = "Alice" -> "alice"
      [] s = " Alice" -> " alice"
      [] s = "Name" -> "name"
      [] OTHER -> s

\* (x or ""): a missing field reads as the empty string.
OrEmpty(x) == IF x = NoValue THEN "" ELSE x

\* MySQL's conversion of the student id text of a request to the INT column.
SidOf == ("1" :> 1) @@ ("2" :> 2) @@ ("3" :> 3) @@ ("4" :> 4)

\* ------------------------------------------------------------ the tables
VARIABLES
    classes,            \* classes.name (UNIQUE)
    students,           \* rows [student_id, name, class]
    homework_records,   \* rows [hw_id, hw_date, student_id, status, grade, updated]
    next_student_id,    \* AUTO_INCREMENT of students
    next_hw_id,         \* AUTO_INCREMENT of homework_records
    resp,               \* the response to the last request
    txns,               \* the requests in flight on concurrent connections
    last_commit         \* the connection whose conn.commit() ran last

vars ==
    <<classes, students, homework_records, next_student_id, next_hw_id, resp,
      txns, last_commit>>

\* The committed database as one value.
DB ==
    [classes |-> classes, students |-> students, records |-> homework_records,
     next_student_id |-> next_student_id, next_hw_id |-> next_hw_id]

\* UNIQUE KEY uniq_date_student (hw_date, student_id).
UniqDateStudent(recs) ==
    \A r1, r2 \in recs :
        (r1.hw_date = r2.hw_date /\ r1.student_id = r2.student_id) => r1 = r2

\* CONSTRAINT fk_hw_student: every record references a student row.
FkHwStudent(studs, recs) ==
    \A r \in recs : \E s \in studs : s.student_id = r.student_id

\* ------------------------------------------------------------ SQL helpers
\* SELECT COUNT(*) FROM homework_records hr JOIN students s ... WHERE
\* s.class = class_name AND hr.hw_date = hw_date.  A NULL class matches no row.
count_existing_hw_for_class_date(d, class_name, hw_date) ==
    Cardinality({ r \in d.records :
        /\ r.hw_date = hw_date
        /\ \E s \in d.students :
              s.student_id = r.student_id /\ s.class = class_name })

\* SELECT COUNT(*) FROM students WHERE class = class_name.
count_students_in_class(d, class_name) ==
    Cardinality({ s \in d.students : s.class = class_name })

\* INSERT ... ON DUPLICATE KEY UPDATE status, grade, updated_at = NOW() with a
\* plain INSERT in its place: a second row for the same (hw_date, student_id).
UpsertSql_PlainInsert(d, hw_date, sid, status, grade) ==
    IF sid \notin DOMAIN SidOf
          \/ ~(\E s \in d.students : s.student_id = SidOf[sid])
    THEN [ok |-> FALSE, db |-> d]
    ELSE [ok |-> TRUE,
          db |-> [d EXCEPT
              !.records = @ \cup {[hw_id |-> d.next_hw_id, hw_date |-> hw_date,
                                   student_id |-> SidOf[sid], status |-> status,
                                   grade |-> grade, updated |-> FALSE]},
              !.next_hw_id = @ + 1]]

\* INSERT INTO homework_records ... ON DUPLICATE KEY UPDATE status, grade,
\* updated_at = NOW(), inside the open transaction d.  It raises (ok = FALSE)
\* when student_id references no student (fk_hw_student).
UpsertSql(d, hw_date, sid, status, grade) ==
    IF sid \notin DOMAIN SidOf
          \/ ~(\E s \in d.students : s.student_id = SidOf[sid])
    THEN [ok |-> FALSE, db |-> d]
    ELSE IF \E r \in d.records : r.hw_date = hw_date /\ r.student_id = SidOf[sid]
    THEN [ok |-> TRUE,
          db |-> [d EXCEPT !.records =
              { IF r.hw_date = hw_date /\ r.student_id = SidOf[sid]
                THEN [r EXCEPT !.status = status, !.grade = grade, !.updated = TRUE]
                ELSE r : r \in @ }]]
    ELSE [ok |-> TRUE,
          db |-> [d EXCEPT
              !.records = @ \cup {[hw_id |-> d.next_hw_id, hw_date |-> hw_date,
                                   student_id |-> SidOf[sid], status |-> status,
                                   grade |-> grade, updated |-> FALSE]},
              !.next_hw_id = @ + 1]]

\* The overwrite gate with the count test off by one.
NeedConfirm_OffByOne(existing_cnt, confirm) ==
    existing_cnt > 1 /\ confirm # "yes"

\* if existing_cnt > 0 and confirm != "yes"
NeedConfirm(existing_cnt, confirm) ==
    existing_cnt > 0 /\ confirm # "yes"

\* The status test letting a third value through.
Recognized_AlsoLate(status) == status \in {"done", "not_done", "late"}

\* status in ("done", "not_done")
Recognized(status) == status \in {"done", "not_done"}

\* (request.form.get("grade_<sid>") or "").strip() or None
HwGrade(g) == IF Strip(OrEmpty(g)) = "" THEN NoValue ELSE Strip(OrEmpty(g))

\* (item.get("grade") or None)
RollGrade(g) == IF OrEmpty(g) = "" THEN NoValue ELSE g

\* ------------------------------------------------------- POST /hw
\* The loop over the status_<sid> keys of the form, from item i on, inside one
\* transaction: d is the uncommitted state.  An exception of the INSERT stops
\* the loop (ok = FALSE).
RECURSIVE HwLoop(_, _, _, _, _)
HwLoop(d, hw_date, marks, i, blocked) ==
    IF i > Len(marks) THEN [ok |-> TRUE, db |-> d]
    ELSE IF ~Recognized(marks[i].status) \/ blocked
    THEN HwLoop(d, hw_date, marks, i + 1, blocked)
    ELSE LET u == UpsertSql(d, hw_date, marks[i].student_id, marks[i].status,
                            HwGrade(marks[i].grade))
         IN  IF u.ok THEN HwLoop(u.db, hw_date, marks, i + 1, blocked)
             ELSE [ok |-> FALSE, db |-> u.db]

\* hw_tracker, method POST.  req = [class_name, hw_date, confirm, marks].
\* An exception leaves the handler before conn.commit(): the connection is
\* dropped and the transaction rolled back; the client gets a 500.
hw_tracker(d, req) ==
    LET hw_date == IF OrEmpty(req.hw_date) = "" THEN Today ELSE req.hw_date
        class_name == req.class_name
        confirm == Lower(IF OrEmpty(req.confirm) = "" THEN "no" ELSE req.confirm)
        existing_cnt == count_existing_hw_for_class_date(d, class_name, hw_date)
    IN  IF NeedConfirm(existing_cnt, confirm)
        THEN [db |-> d,
              resp |-> [op |-> "hw", kind |-> "need_confirm", hw_date |-> hw_date,
                        class_name |-> class_name, confirm_needed |-> 1]]
        ELSE LET l == HwLoop(d, hw_date, req.marks, 1,
                             NeedConfirm(existing_cnt, confirm))
             IN  IF l.ok
                 THEN [db |-> l.db, resp |-> [op |-> "hw", kind |-> "saved"]]
                 ELSE [db |-> d, resp |-> [op |-> "hw", kind |-> "error"]]

\* ------------------------------------------------------- POST /hw/roll
\* def upsert_homework: the statement and then conn.commit().  The loop over
\* marks: every row written before an exception is already committed.
RECURSIVE RollLoop(_, _, _, _)
RollLoop(d, hw_date, marks, i) ==
    IF i > Len(marks) THEN [ok |-> TRUE, db |-> d]
    ELSE IF ~Recognized(marks[i].status)
    THEN RollLoop(d, hw_date, marks, i + 1)
    ELSE LET u == UpsertSql(d, hw_date, marks[i].student_id, marks[i].status,
                            RollGrade(marks[i].grade))
         IN  IF u.ok THEN RollLoop(u.db, hw_date, marks, i + 1)
             ELSE [ok |-> FALSE, db |-> u.db]

\* hw_roll, method POST.  req = [class_name, hw_date, confirm, marks].
hw_roll(d, req) ==
    LET class_name == Strip(OrEmpty(req.class_name))
        hw_date == IF OrEmpty(req.hw_date) = "" THEN Today ELSE req.hw_date
        confirm == Lower(IF OrEmpty(req.confirm) = "" THEN "no" ELSE req.confirm)
        existing_cnt == count_existing_hw_for_class_date(d, class_name, hw_date)
    IN  IF NeedConfirm(existing_cnt, confirm)
        THEN [db |-> d,
              resp |-> [op |-> "roll", kind |-> "need_confirm", code |-> 409,
                        hw_date |-> hw_date, class_name |-> class_name]]
        ELSE LET l == RollLoop(d, hw_date, req.marks, 1)
             IN  IF l.ok
                 THEN [db |-> l.db,
                       resp |-> [op |-> "roll", kind |-> "saved", code |-> 200]]
                 ELSE [db |-> l.db,
                       resp |-> [op |-> "roll", kind |-> "error", code |-> 500]]

\* ------------------------------------------------------- POST /hw/import-students
\* row[0] if row else ""
FirstCell(row) == IF Len(row) = 0 THEN "" ELSE row[1]

\* (row.get("name") or "") of csv.DictReader: the cell under the header that
\* is exactly "name" (the last one when several are), "" when the row is short
\* or no header is spelled that way.
NameCell(fieldnames, row) ==
    LET cols == { j \in 1..Len(fieldnames) : fieldnames[j] = "name" /\ j <= Len(row) }
    IN  IF cols = {} THEN ""
        ELSE row[CHOOSE j \in cols : \A k \in cols : k <= j]

NonEmpty(nm) == nm # ""

\* any(h.strip().lower() == "name" for h in reader.fieldnames)
HasNameColumn(fieldnames) ==
    \E j \in 1..Len(fieldnames) : Lower(Strip(fieldnames[j])) = "name"

\* The names list built from the decoded file: rows is the file as csv.reader
\* yields it and has_header is what csv.Sniffer().has_header returned (True
\* when it raised).  Blank names are dropped, kept names are stripped.
ParseNames(rows, has_header) ==
    LET data == IF has_header THEN SubSeq(rows, 2, Len(rows)) ELSE rows
        byName == has_header /\ Len(rows) > 0 /\ HasNameColumn(rows[1])
        cells == [ i \in 1..Len(data) |->
                     Strip(IF byName THEN NameCell(rows[1], data[i])
                           ELSE FirstCell(data[i])) ]
    IN  SelectSeq(cells, NonEmpty)

\* Which validation stops the import before it touches the database, with the
\* test for an empty names list missing.
ImportRejection_NoNamesCheck(class_name, upload, names) ==
    IF class_name = "" THEN "invalid"
    ELSE IF ~upload.present \/ upload.filename = "" THEN "nofile"
    ELSE "none"

\* Which validation stops the import before it touches the database: no class
\* name, no file or an empty file name, no usable name.
ImportRejection(class_name, upload, names) ==
    IF class_name = "" THEN "invalid"
    ELSE IF ~upload.present \/ upload.filename = "" THEN "nofile"
    ELSE IF Len(names) = 0 THEN "nonames"
    ELSE "none"

\* INSERT INTO students (name, class) VALUES (nm, class_name) in transaction d.
InsertStudentSql(d, nm, class_name) ==
    [d EXCEPT
        !.students = @ \cup {[student_id |-> d.next_student_id, name |-> nm,
                              class |-> class_name]},
        !.next_student_id = @ + 1]

\* The key under which a candidate is looked up in existing_names, with the
\* lower-casing left out.
DedupKey_CaseSensitive(nm) == nm

\* key = nm.lower()
DedupKey(nm) == Lower(nm)

\* The insertion pass inside one transaction, from name i on.  fail_at is the
\* position of the name whose INSERT raises (Len(names) + 1: conn.commit()
\* raises; 0: nothing raises).  The requests fail at position 2: after one
\* INSERT of a file of two names, at the commit of a file of one.
RECURSIVE ImportLoop(_, _, _, _, _, _, _, _)
ImportLoop(d, class_name, names, i, existing_names, added, skipped, fail_at) ==
    IF i > Len(names)
    THEN [ok |-> fail_at # i, db |-> d, added |-> added, skipped |-> skipped]
    ELSE IF DedupKey(names[i]) \in existing_names
    THEN ImportLoop(d, class_name, names, i + 1, existing_names, added,
                    skipped + 1, fail_at)
    ELSE IF fail_at = i
    THEN [ok |-> FALSE, db |-> d, added |-> added, skipped |-> skipped]
    ELSE ImportLoop(InsertStudentSql(d, names[i], class_name), class_name, names,
                    i + 1, existing_names \cup {DedupKey(names[i])}, added + 1,
                    skipped, fail_at)

\* What the database holds after the insertion pass l that started from the
\* committed state d, when a failed pass is not rolled back.
ImportCommit_NoRollback(d, l) == l.db

\* try: ... conn.commit()  except: conn.rollback()
ImportCommit(d, l) == IF l.ok THEN l.db ELSE d

\* INSERT IGNORE INTO classes (name) VALUES (class_name); conn.commit(), and
\* conn.rollback() when it raised.
EnsureClass(d, class_name, class_fail) ==
    IF class_fail THEN d ELSE [d EXCEPT !.classes = @ \cup {class_name}]

\* hw_import_students, method POST.
\* req = [class_name, upload, class_fail, fail_at]; upload = [present, filename,
\* rows, has_header].
hw_import_students(d, req) ==
    LET class_name == Strip(OrEmpty(req.class_name))
        names == IF req.upload.present
                 THEN ParseNames(req.upload.rows, req.upload.has_header) ELSE <<>>
        rejection == ImportRejection(class_name, req.upload, names)
        d1 == EnsureClass(d, class_name, req.class_fail)
        existing_names ==
            { Lower(s.name) : s \in { t \in d1.students : t.class = class_name } }
        l == ImportLoop(d1, class_name, names, 1, existing_names, 0, 0, req.fail_at)
    IN  IF rejection # "none"
        THEN [db |-> d, resp |-> [op |-> "import", kind |-> rejection]]
        ELSE [db |-> ImportCommit(d1, l),
              resp |-> IF l.ok
                       THEN [op |-> "import", kind |-> "ok", class_name |-> class_name,
                             added |-> l.added, skipped |-> l.skipped]
                       ELSE [op |-> "import", kind |-> "failed"]]

\* ------------------------------------------------------- POST /hw/add-class
\* hw_add_class.  req = [class_name].  The INSERT raises on a name that is
\* already there (UNIQUE).
hw_add_class(d, req) ==
    LET name == Strip(OrEmpty(req.class_name))
    IN  IF name = ""
        THEN [db |-> d, resp |-> [op |-> "add_class", kind |-> "invalid"]]
        ELSE IF name \in d.classes
        THEN [db |-> d, resp |-> [op |-> "add_class", kind |-> "failed"]]
        ELSE [db |-> [d EXCEPT !.classes = @ \cup {name}],
              resp |-> [op |-> "add_class", kind |-> "ok"]]

\* ------------------------------------------------------- POST /hw/add-student
\* hw_add_student.  req = [student_name, student_class].
hw_add_student(d, req) ==
    LET name == Strip(OrEmpty(req.student_name))
        class_name == Strip(OrEmpty(req.student_class))
    IN  IF name = "" \/ class_name = ""
        THEN [db |-> d, resp |-> [op |-> "add_student", kind |-> "invalid"]]
        ELSE [db |-> InsertStudentSql(d, name, class_name),
              resp |-> [op |-> "add_student", kind |-> "ok"]]

\* ------------------------------------------------------- POST /hw/delete-student
\* DELETE FROM students WHERE <which>, without ON DELETE CASCADE.
DeleteStudentsSql_NoCascade(d, gone) ==
    [d EXCEPT !.students = @ \ gone]

\* DELETE FROM students WHERE <which> in transaction d; fk_hw_student
\* ON DELETE CASCADE removes the homework records of the deleted rows.
DeleteStudentsSql(d, gone) ==
    [d EXCEPT
        !.students = @ \ gone,
        !.records = { r \in @ : ~(\E s \in gone : s.student_id = r.student_id) }]

\* hw_delete_student.  req = [student_id].
hw_delete_student(d, req) ==
    IF OrEmpty(req.student_id) = ""
    THEN [db |-> d, resp |-> [op |-> "delete_student", kind |-> "invalid"]]
    ELSE [db |-> DeleteStudentsSql(d,
                    { s \in d.students :
                        req.student_id \in DOMAIN SidOf
                        /\ s.student_id = SidOf[req.student_id] }),
          resp |-> [op |-> "delete_student", kind |-> "ok"]]

\* ------------------------------------------------------- POST /hw/delete-class
\* The two DELETEs of hw_delete_class with a commit after each statement:
\* what the first removed stays removed when the second raises.
DeleteClassTxn_Autocommit(d, class_name, fail_at) ==
    LET d1 == DeleteStudentsSql(d, { s \in d.students : s.class = class_name })
        d2 == [d1 EXCEPT !.classes = @ \ {class_name}]
    IN  IF fail_at = 0 THEN [ok |-> TRUE, db |-> d2]
        ELSE IF fail_at = 3 THEN [ok |-> FALSE, db |-> d1]
        ELSE [ok |-> FALSE, db |-> d]

\* The two DELETEs and the commit of hw_delete_class as one transaction.
\* fail_at: 0 nothing raises, 2 the DELETE of the students raises, 3 the DELETE
\* of the class row or the commit raises; conn.rollback() undoes what ran.
DeleteClassTxn(d, class_name, fail_at) ==
    LET d1 == DeleteStudentsSql(d, { s \in d.students : s.class = class_name })
        d2 == [d1 EXCEPT !.classes = @ \ {class_name}]
    IN  IF fail_at = 0 THEN [ok |-> TRUE, db |-> d2]
        ELSE [ok |-> FALSE, db |-> d]

\* The gate of hw_delete_class asking only for classes of two or more students.
DeleteNeedsConfirm_OffByOne(students_cnt, confirm) ==
    students_cnt > 1 /\ confirm # "yes"

\* The gate of hw_delete_class: ask first when there are students and the
\* user has not confirmed.
DeleteNeedsConfirm(students_cnt, confirm) ==
    students_cnt > 0 /\ confirm # "yes"

\* hw_delete_class.  req = [class_name, confirm, fail_at]; fail_at = 1: the
\* count query raises.
hw_delete_class(d, req) ==
    LET class_name == Strip(OrEmpty(req.class_name))
        confirm == Lower(IF OrEmpty(req.confirm) = "" THEN "no" ELSE req.confirm)
        students_cnt == count_students_in_class(d, class_name)
        t == DeleteClassTxn(d, class_name, req.fail_at)
    IN  IF class_name = ""
        THEN [db |-> d, resp |-> [op |-> "delete_class", kind |-> "invalid"]]
        ELSE IF req.fail_at = 1
        THEN [db |-> d, resp |-> [op |-> "delete_class", kind |-> "failed"]]
        ELSE IF DeleteNeedsConfirm(students_cnt, confirm)
        THEN [db |-> d,
              resp |-> [op |-> "delete_class", kind |-> "need_confirm",
                        del_confirm_class |-> class_name,
                        del_students_cnt |-> students_cnt]]
        ELSE [db |-> t.db,
              resp |-> [op |-> "delete_class",
                        kind |-> IF t.ok THEN "ok" ELSE "failed"]]

\* ------------------------------------------------------------- requests
\* The student ids the requests name; "2" names no student until a second
\* one is enrolled.
SidInputs == {"1", "2"}
ConfirmInputs == {NoValue, "YES"}
DateInputs == {NoValue, "2024-05-02"}
HwClassInputs == {NoValue, "8A", "9B"}
FormClassInputs == {NoValue, "8A", " 9B"}
StudentNameInputs == {NoValue, " Alice"}

\* One status_<sid> / grade_<sid> pair of the form, one item of the JSON marks.
MarkChoices ==
    { [status |-> "done", grade |-> "A"],
      [status |-> "not_done", grade |-> ""],
      [status |-> "late", grade |-> ""] }

MarkItems ==
    { [student_id |-> x, status |-> m.status, grade |-> m.grade] :
        x \in SidInputs, m \in MarkChoices }

\* The marks of a request, in order: none, one or two items.
MarkSeqs ==
    {<<>>} \cup { <<a>> : a \in MarkItems } \cup { <<a, b>> : a, b \in MarkItems }

\* The keys of a form are distinct: one status_<sid> per student id.
DistinctSids(marks) ==
    \A i, j \in 1..Len(marks) : marks[i].student_id = marks[j].student_id => i = j

HwRequests ==
    { [class_name |-> c, hw_date |-> dt, confirm |-> cf, marks |-> m] :
        c \in HwClassInputs, dt \in DateInputs, cf \in ConfirmInputs,
        m \in { x \in MarkSeqs : DistinctSids(x) } }

RollRequests ==
    { [class_name |-> c, hw_date |-> dt, confirm |-> cf, marks |-> m] :
        c \in HwClassInputs, dt \in DateInputs, cf \in ConfirmInputs,
        m \in MarkSeqs }

\* The uploaded files: the rows of cells csv.reader yields, and what
\* csv.Sniffer().has_header answers for the text.
Files ==
    { [rows |-> <<>>, has_header |-> TRUE],
      [rows |-> << <<"name">>, <<" Alice">>, <<"bob">> >>, has_header |-> TRUE],
      [rows |-> << <<"Name">>, <<"bob">> >>, has_header |-> TRUE],
      [rows |-> << <<" Alice", "8A">>, <<"alice", "8A">> >>, has_header |-> FALSE],
      [rows |-> << <<"class", "name">>, <<"8A", "bob">>, <<"8A", " ">>, <<"8A">> >>,
       has_header |-> TRUE],
      [rows |-> << <<"student", "class">>, <<"bob", "8A">>, <<>>, <<"Alice", "8A">> >>,
       has_header |-> TRUE] }

Uploads ==
    { [present |-> FALSE, filename |-> "", rows |-> <<>>, has_header |-> TRUE],
      [present |-> TRUE, filename |-> "", rows |-> <<>>, has_header |-> TRUE] }
    \cup { [present |-> TRUE, filename |-> "roster.csv", rows |-> f.rows,
            has_header |-> f.has_header] : f \in Files }

\* What goes wrong during an import: nothing, the class creation, or the
\* insertion pass at position 2.
ImportFailures ==
    { [class_fail |-> FALSE, fail_at |-> 0],
      [class_fail |-> TRUE, fail_at |-> 0],
      [class_fail |-> FALSE, fail_at |-> 2] }

ImportRequests ==
    { [class_name |-> c, upload |-> u, class_fail |-> f.class_fail,
       fail_at |-> f.fail_at] :
        c \in FormClassInputs, u \in Uploads, f \in ImportFailures }

AddClassRequests ==
    { [class_name |-> c] : c \in FormClassInputs }

AddStudentRequests ==
    { [student_name |-> n, student_class |-> c] :
        n \in StudentNameInputs, c \in FormClassInputs }

DeleteStudentRequests ==
    { [student_id |-> x] : x \in SidInputs \cup {NoValue} }

DeleteClassRequests ==
    { [class_name |-> c, confirm |-> cf, fail_at |-> k] :
        c \in FormClassInputs, cf \in ConfirmInputs, k \in 0..3 }

\* ------------------------------------------------------------- the system
\* The connections two concurrent requests run on.
Procs == {1, 2}

\* A connection with no request in flight.
IdleTxn == [endpoint |-> "none", req |-> NoValue, pc |-> "idle", i |-> 0,
            pending |-> {}]

\* ensure_schema(): the three tables, empty.
Init ==
    /\ classes = {}
    /\ students = {}
    /\ homework_records = {}
    /\ next_student_id = 1
    /\ next_hw_id = 1
    /\ resp = [op |-> "none", kind |-> "none"]
    /\ txns = [p \in Procs |-> IdleTxn]
    /\ last_commit = 0

\* The AUTO_INCREMENT counters of outcome o stay within the caps.
WithinCaps(o, caps) ==
    /\ o.db.next_student_id <= caps.student_id + 1
    /\ o.db.next_hw_id <= caps.hw_id + 1

HwCaps == [student_id |-> HwMaxStudentId, hw_id |-> HwMaxHwId]
RosterCaps == [student_id |-> RosterMaxStudentId, hw_id |-> RosterMaxHwId]

HwTrackerPost(reqs, caps) ==
    \E req \in reqs : \E o \in {hw_tracker(DB, req)} :
            /\ WithinCaps(o, caps)
            /\ classes' = o.db.classes
            /\ students' = o.db.students
            /\ homework_records' = o.db.records
            /\ next_student_id' = o.db.next_student_id
            /\ next_hw_id' = o.db.next_hw_id
            /\ resp' = o.resp
            /\ UNCHANGED <<txns, last_commit>>
HwRollPost(reqs, caps) ==
    \E req \in reqs : \E o \in {hw_roll(DB, req)} :
            /\ WithinCaps(o, caps)
            /\ classes' = o.db.classes
            /\ students' = o.db.students
            /\ homework_records' = o.db.records
            /\ next_student_id' = o.db.next_student_id
            /\ next_hw_id' = o.db.next_hw_id
            /\ resp' = o.resp
            /\ UNCHANGED <<txns, last_commit>>
HwImportStudents(reqs, caps) ==
    \E req \in reqs : \E o \in {hw_import_students(DB, req)} :
            /\ WithinCaps(o, caps)
            /\ classes' = o.db.classes
            /\ students' = o.db.students
            /\ homework_records' = o.db.records
            /\ next_student_id' = o.db.next_student_id
            /\ next_hw_id' = o.db.next_hw_id
            /\ resp' = o.resp
            /\ UNCHANGED <<txns, last_commit>>
HwAddClass(reqs, caps) ==
    \E req \in reqs : \E o \in {hw_add_class(DB, req)} :
            /\ WithinCaps(o, caps)
            /\ classes' = o.db.classes
            /\ students' = o.db.students
            /\ homework_records' = o.db.records
            /\ next_student_id' = o.db.next_student_id
            /\ next_hw_id' = o.db.next_hw_id
            /\ resp' = o.resp
            /\ UNCHANGED <<txns, last_commit>>
HwAddStudent(reqs, caps) ==
    \E req \in reqs : \E o \in {hw_add_student(DB, req)} :
            /\ WithinCaps(o, caps)
            /\ classes' = o.db.classes
            /\ students' = o.db.students
            /\ homework_records' = o.db.records
            /\ next_student_id' = o.db.next_student_id
            /\ next_hw_id' = o.db.next_hw_id
            /\ resp' = o.resp
            /\ UNCHANGED <<txns, last_commit>>
HwDeleteStudent(reqs, caps) ==
    \E req \in reqs : \E o \in {hw_delete_student(DB, req)} :
            /\ WithinCaps(o, caps)
            /\ classes' = o.db.classes
            /\ students' = o.db.students
            /\ homework_records' = o.db.records
            /\ next_student_id' = o.db.next_student_id
            /\ next_hw_id' = o.db.next_hw_id
            /\ resp' = o.resp
            /\ UNCHANGED <<txns, last_commit>>
HwDeleteClass(reqs, caps) ==
    \E req \in reqs : \E o \in {hw_delete_class(DB, req)} :
            /\ WithinCaps(o, caps)
            /\ classes' = o.db.classes
            /\ students' = o.db.students
            /\ homework_records' = o.db.records
            /\ next_student_id' = o.db.next_student_id
            /\ next_hw_id' = o.db.next_hw_id
            /\ resp' = o.resp
            /\ UNCHANGED <<txns, last_commit>>

\* --- the homework workflow: every submission, over a small roster.
\* Students come from add-student (Alice into 8A) and from an import (bob
\* into 9B); class deletes are confirmed and do not fail.
HwRoster_AddStudent ==
    { [student_name |-> " Alice", student_class |-> "8A"] }

HwRoster_Import ==
    { [class_name |-> " 9B",
       upload |-> [present |-> TRUE, filename |-> "roster.csv",
                   rows |-> << <<"name">>, <<"bob">> >>, has_header |-> TRUE],
       class_fail |-> FALSE, fail_at |-> 0] }

HwRoster_DeleteStudent ==
    { [student_id |-> x] : x \in SidInputs }

HwRoster_DeleteClass ==
    { [class_name |-> c, confirm |-> "YES", fail_at |-> 0] : c \in {"8A", " 9B"} }

NextHw ==
    \/ HwTrackerPost(HwRequests, HwCaps)
    \/ HwRollPost(RollRequests, HwCaps)
    \/ HwAddStudent(HwRoster_AddStudent, HwCaps)
    \/ HwImportStudents(HwRoster_Import, HwCaps)
    \/ HwDeleteStudent(HwRoster_DeleteStudent, HwCaps)
    \/ HwDeleteClass(HwRoster_DeleteClass, HwCaps)

SpecHw == Init /\ [][NextHw]_vars

\* --- the roster: every import, add and delete, over a few homework records.
\* Records come from confirmed roll calls of one "done" mark.
Roster_Roll ==
    { [class_name |-> "8A", hw_date |-> NoValue, confirm |-> "YES",
       marks |-> << [student_id |-> x, status |-> "done", grade |-> "A"] >>] :
        x \in SidInputs }

NextRoster ==
    \/ HwImportStudents(ImportRequests, RosterCaps)
    \/ HwAddClass(AddClassRequests, RosterCaps)
    \/ HwAddStudent(AddStudentRequests, RosterCaps)
    \/ HwDeleteStudent(DeleteStudentRequests, RosterCaps)
    \/ HwDeleteClass(DeleteClassRequests, RosterCaps)
    \/ HwRollPost(Roster_Roll, RosterCaps)

SpecRoster == Init /\ [][NextRoster]_vars

\* ------------------------------------------------ GET /hw/export/class.csv
\* MySQL's order of the DATE values the records carry.
DayNo == ("2024-05-01" :> 1) @@ ("2024-05-02" :> 2)

\* MySQL's order of the student names (ORDER BY s.name).
NameOrd == ("Alice" :> 1) @@ ("bob" :> 2)

\* The WHERE clause with the lower bound compared strictly.
ExportWhere_StrictStart(hw_date, start, end) ==
    /\ OrEmpty(start) # "" => DayNo[hw_date] > DayNo[start]
    /\ OrEmpty(end) # "" => DayNo[hw_date] <= DayNo[end]

\* The date part of the WHERE clause: a bound is added only when the
\* parameter is present and not empty.
ExportWhere(hw_date, start, end) ==
    /\ OrEmpty(start) # "" => DayNo[hw_date] >= DayNo[start]
    /\ OrEmpty(end) # "" => DayNo[hw_date] <= DayNo[end]

\* homework_records JOIN students ON student_id WHERE s.class = class_name
\* AND <dates>, with the five selected columns (hw_id tells the rows apart).
ExportSelect(d, class_name, start, end) ==
    { [hw_id |-> p[1].hw_id, hw_date |-> p[1].hw_date, student_name |-> p[2].name,
       class |-> p[2].class, status |-> p[1].status, grade |-> p[1].grade] :
        p \in { x \in d.records \X d.students :
                    /\ x[1].student_id = x[2].student_id
                    /\ x[2].class = class_name
                    /\ ExportWhere(x[1].hw_date, start, end) } }

\* ORDER BY hr.hw_date, s.name.
ExportBefore(a, b) ==
    \/ DayNo[a.hw_date] < DayNo[b.hw_date]
    \/ /\ DayNo[a.hw_date] = DayNo[b.hw_date]
       /\ NameOrd[a.student_name] <= NameOrd[b.student_name]

\* The orders in which the server may return the selected rows: rows equal in
\* date and name come in either order.
ExportOrderings(sel) ==
    { f \in [1..Cardinality(sel) -> sel] :
        /\ \A i, j \in DOMAIN f : f[i] = f[j] => i = j
        /\ \A i \in DOMAIN f : i + 1 \in DOMAIN f => ExportBefore(f[i], f[i + 1]) }

\* One line of the CSV: strftime of the date, and a NULL grade written empty.
CsvRow(j) ==
    << j.hw_date, j.student_name, j.class, j.status,
       IF j.grade = NoValue THEN "" ELSE j.grade >>

CsvHeader == << "Date", "Student", "Class", "Status", "Grade" >>

\* hw_export_class_csv.  req = [class_name, start, end]; the outcomes differ
\* only in the order of rows the ORDER BY leaves open.
hw_export_class_csv(d, req) ==
    { [db |-> d,
       resp |-> [op |-> "export", kind |-> "csv",
                 rows |-> <<CsvHeader>> \o [i \in DOMAIN f |-> CsvRow(f[i])]]] :
        f \in ExportOrderings(ExportSelect(d, req.class_name, req.start, req.end)) }

ExportBoundInputs == {NoValue, "", "2024-05-01", "2024-05-02"}

ExportRequests ==
    { [class_name |-> c, start |-> a, end |-> b] :
        c \in HwClassInputs, a \in ExportBoundInputs, b \in ExportBoundInputs }

HwExportClassCsv(reqs) ==
    \E req \in reqs : \E o \in hw_export_class_csv(DB, req) :
            /\ classes' = o.db.classes
            /\ students' = o.db.students
            /\ homework_records' = o.db.records
            /\ next_student_id' = o.db.next_student_id
            /\ next_hw_id' = o.db.next_hw_id
            /\ resp' = o.resp
            /\ UNCHANGED <<txns, last_commit>>

\* --- the export: Alice and bob in class 8A, bob in class 9B; roll calls mark
\* done with grade A today and not_done without a grade on the other date.
Export_AddStudent ==
    { [student_name |-> " Alice", student_class |-> "8A"],
      [student_name |-> "bob", student_class |-> "8A"],
      [student_name |-> "bob", student_class |-> " 9B"] }

Export_Roll ==
    { [class_name |-> "8A", hw_date |-> dt, confirm |-> "YES",
       marks |-> << [student_id |-> x,
                     status |-> IF dt = NoValue THEN "done" ELSE "not_done",
                     grade |-> IF dt = NoValue THEN "A" ELSE ""] >>] :
        dt \in DateInputs, x \in SidInputs }

NextExport ==
    \/ HwAddStudent(Export_AddStudent, RosterCaps)
    \/ HwRollPost(Export_Roll, RosterCaps)
    \/ HwExportClassCsv(ExportRequests)

SpecExport == Init /\ [][NextExport]_vars

\* ------------------------------------------- concurrent submissions
\* Two submissions for the same class and date run on two connections; each
\* step below is one statement of hw_tracker, hw_roll or upsert_homework.
\* txns[p].pending holds the rows connection p has written and not committed;
\* InnoDB keeps them locked until p commits or is rolled back.
TxnKey(r) == <<r.hw_date, r.student_id>>

\* The database as connection p reads and writes it: the committed rows with
\* p's own uncommitted rows in place of the ones they replace.
TxnView(p) ==
    [DB EXCEPT !.records =
        { r \in @ : \A w \in txns[p].pending : TxnKey(w) # TxnKey(r) }
        \cup txns[p].pending]

TxnDate(t) == IF OrEmpty(t.req.hw_date) = "" THEN Today ELSE t.req.hw_date

TxnClass(t) ==
    IF t.endpoint = "roll" THEN Strip(OrEmpty(t.req.class_name))
    ELSE t.req.class_name

TxnGrade(t, g) == IF t.endpoint = "roll" THEN RollGrade(g) ELSE HwGrade(g)

\* Connection p is at a mark with a recognized status.
AtWrite(p) ==
    /\ txns[p].pc = "loop"
    /\ txns[p].i <= Len(txns[p].req.marks)
    /\ Recognized(txns[p].req.marks[txns[p].i].status)

\* The next INSERT of p waits for a row lock that q holds.
Blocked(p, q) ==
    /\ p # q
    /\ AtWrite(p)
    /\ txns[p].req.marks[txns[p].i].student_id \in DOMAIN SidOf
    /\ \E w \in txns[q].pending :
          TxnKey(w) = <<TxnDate(txns[p]),
                        SidOf[txns[p].req.marks[txns[p].i].student_id]>>

\* The existence check and the gate, read from the committed rows.
RaceGate(p) ==
    /\ txns[p].pc = "start"
    /\ txns' = [txns EXCEPT ![p].pc =
          IF NeedConfirm(
                count_existing_hw_for_class_date(DB, TxnClass(txns[p]),
                                                 TxnDate(txns[p])),
                Lower(IF OrEmpty(txns[p].req.confirm) = "" THEN "no"
                      ELSE txns[p].req.confirm))
          THEN "need_confirm" ELSE "loop"]
    /\ UNCHANGED <<classes, students, homework_records, next_student_id,
                   next_hw_id, resp, last_commit>>

\* A mark with an unrecognized status: the loop moves on.
RaceSkip(p) ==
    /\ txns[p].pc = "loop"
    /\ txns[p].i <= Len(txns[p].req.marks)
    /\ ~Recognized(txns[p].req.marks[txns[p].i].status)
    /\ txns' = [txns EXCEPT ![p].i = @ + 1]
    /\ UNCHANGED <<classes, students, homework_records, next_student_id,
                   next_hw_id, resp, last_commit>>

\* cur.execute(INSERT ... ON DUPLICATE KEY UPDATE) for the mark p is at.  In
\* hw_tracker the loop goes on inside the transaction; in upsert_homework the
\* next statement is conn.commit().  AUTO_INCREMENT is taken at once.
RaceExecute(p) ==
    /\ AtWrite(p)
    /\ \A q \in Procs : ~Blocked(p, q)
    /\ \E t \in {txns[p]} : \E m \in {t.req.marks[t.i]} :
       \E u \in {UpsertSql(TxnView(p), TxnDate(t), m.student_id, m.status,
                            TxnGrade(t, m.grade))} :
          /\ next_hw_id' = u.db.next_hw_id
          /\ txns' = [txns EXCEPT ![p] =
                IF ~u.ok THEN [t EXCEPT !.pc = "error", !.pending = {}]
                ELSE [t EXCEPT
                        !.pending =
                            { r \in u.db.records :
                                \/ \E w \in t.pending : TxnKey(w) = TxnKey(r)
                                \/ TxnKey(r) = <<TxnDate(t), SidOf[m.student_id]>> },
                        !.pc = IF t.endpoint = "roll" THEN "row_commit" ELSE "loop",
                        !.i = IF t.endpoint = "roll" THEN @ ELSE @ + 1]]
    /\ UNCHANGED <<classes, students, homework_records, next_student_id, resp,
                   last_commit>>

\* conn.commit() of upsert_homework: the row just written becomes visible and
\* its lock is released.
RaceRowCommit(p) ==
    /\ txns[p].pc = "row_commit"
    /\ homework_records' = TxnView(p).records
    /\ txns' = [txns EXCEPT ![p].pending = {}, ![p].pc = "loop", ![p].i = @ + 1]
    /\ last_commit' = p
    /\ UNCHANGED <<classes, students, next_student_id, next_hw_id, resp>>

\* conn.commit() after the loop of hw_tracker or hw_roll.
RaceCommit(p) ==
    /\ txns[p].pc = "loop"
    /\ txns[p].i > Len(txns[p].req.marks)
    /\ homework_records' = TxnView(p).records
    /\ txns' = [txns EXCEPT ![p].pending = {}, ![p].pc = "done"]
    /\ last_commit' = p
    /\ UNCHANGED <<classes, students, next_student_id, next_hw_id, resp>>

\* p and q each wait for a row the other holds: InnoDB rolls one of them
\* back, its INSERT raises and the request ends with an error.
RaceDeadlock(p) ==
    /\ \E q \in Procs : Blocked(p, q) /\ Blocked(q, p)
    /\ txns' = [txns EXCEPT ![p].pending = {}, ![p].pc = "error"]
    /\ UNCHANGED <<classes, students, homework_records, next_student_id,
                   next_hw_id, resp, last_commit>>

\* What connection p submits for student x: connection 1 marks done with
\* grade A, connection 2 marks not_done without a grade.
RaceMarkOf(p, x) ==
    [student_id |-> x, status |-> IF p = 1 THEN "done" ELSE "not_done",
     grade |-> IF p = 1 THEN "A" ELSE ""]

\* The confirmed submissions of connection p for class 8A and today: both
\* students, in either order, with or without a mark the loop skips.
RaceRequests(p) ==
    { [class_name |-> "8A", hw_date |-> NoValue, confirm |-> "YES", marks |-> m] :
        m \in { <<RaceMarkOf(p, "1"), RaceMarkOf(p, "2")>>,
                 <<RaceMarkOf(p, "2"), RaceMarkOf(p, "1")>>,
                 <<[student_id |-> "1", status |-> "late", grade |-> ""],
                   RaceMarkOf(p, "1"), RaceMarkOf(p, "2")>> } }

\* The tables after two add-student requests for class 8A.
RaceRoster ==
    hw_add_student(
        hw_add_student(
            [classes |-> {}, students |-> {}, records |-> {},
             next_student_id |-> 1, next_hw_id |-> 1],
            [student_name |-> " Alice", student_class |-> "8A"]).db,
        [student_name |-> " Alice", student_class |-> "8A"]).db

\* The same after a first roll call for today.
RaceMarked ==
    hw_roll(RaceRoster,
            [class_name |-> "8A", hw_date |-> NoValue, confirm |-> NoValue,
             marks |-> <<[student_id |-> "1", status |-> "not_done", grade |-> "C"],
                         [student_id |-> "2", status |-> "not_done", grade |-> "C"]>>]).db

InitRace ==
    /\ \E d \in {RaceRoster, RaceMarked} :
          /\ classes = d.classes
          /\ students = d.students
          /\ homework_records = d.records
          /\ next_student_id = d.next_student_id
          /\ next_hw_id = d.next_hw_id
    /\ resp = [op |-> "none", kind |-> "none"]
    /\ \E e1, e2 \in {"hw", "roll"} :
       \E q1 \in RaceRequests(1), q2 \in RaceRequests(2) :
          txns = (1 :> [endpoint |-> e1, req |-> q1, pc |-> "start", i |-> 1,
                        pending |-> {}])
                 @@ (2 :> [endpoint |-> e2, req |-> q2, pc |-> "start", i |-> 1,
                           pending |-> {}])
    /\ last_commit = 0

NextRace ==
    \E p \in Procs :
        \/ RaceGate(p)
        \/ RaceSkip(p)
        \/ RaceExecute(p)
        \/ RaceRowCommit(p)
        \/ RaceCommit(p)
        \/ RaceDeadlock(p)

SpecRace == InitRace /\ [][NextRace]_vars

\* ================================================================ claims
\* What a request asks for, read off the request itself.
Confirmed(req) == req.confirm \in {"yes", "YES"}
DateOf(req) == IF req.hw_date \in Dates THEN req.hw_date ELSE Today
ClassOf(req) == IF req.class_name \in {"8A", "9B"} THEN req.class_name
                ELSE IF req.class_name = " 9B" THEN "9B" ELSE ""
ExistingCount(c, dt) == count_existing_hw_for_class_date(DB, c, dt)

\* Every mark of the request names an enrolled student, each student once.
NamesEnrolledStudents(req) ==
    /\ DistinctSids(req.marks)
    /\ \A i \in 1..Len(req.marks) :
          \E s \in students : s.student_id = SidOf[req.marks[i].student_id]

\* The rows a request submits with a recognized status, as (student, status,
\* grade) with an empty grade stored as NULL.
SubmittedRows(req) ==
    { [hw_date |-> DateOf(req), student_id |-> SidOf[req.marks[i].student_id],
       status |-> req.marks[i].status,
       grade |-> IF req.marks[i].grade = "" THEN NoValue ELSE req.marks[i].grade] :
        i \in { j \in 1..Len(req.marks) : req.marks[j].status \in {"done", "not_done"} } }

RowOf(r) ==
    [hw_date |-> r.hw_date, student_id |-> r.student_id, status |-> r.status,
     grade |-> r.grade]

\* P holds of every request to either submission endpoint and its outcome.
ForEverySubmission(P(_, _)) ==
    /\ \A q \in HwRequests : \A o \in {hw_tracker(DB, q)} : P(q, o)
    /\ \A q \in RollRequests : \A o \in {hw_roll(DB, q)} : P(q, o)

\* The step taken is the request with outcome o.
IsStep(o) ==
    /\ classes' = o.db.classes
    /\ students' = o.db.students
    /\ homework_records' = o.db.records
    /\ next_student_id' = o.db.next_student_id
    /\ next_hw_id' = o.db.next_hw_id
    /\ resp' = o.resp

\* ---------------------------------------------------------------- C1
C1_Blocked(q, o) ==
    (~Confirmed(q) /\ ExistingCount(ClassOf(q), DateOf(q)) > 0)
    => /\ o.db = DB
       /\ o.resp.kind = "need_confirm"
       /\ o.resp.class_name = ClassOf(q)
       /\ o.resp.hw_date = DateOf(q)

\* C1 (as amended): when at least one record of a student of class C exists
\* for date D, a submission for (C, D) without confirmation leaves
\* homework_records (and every other table) unchanged and answers
\* "confirmation required" naming the class and the date.
C1_UnconfirmedWritesNothing == ForEverySubmission(C1_Blocked)

C1_BlockedWithCount(q, o) ==
    (~Confirmed(q) /\ ExistingCount(ClassOf(q), DateOf(q)) > 0)
    => /\ o.db = DB
       /\ o.resp.kind = "need_confirm"
       /\ "existing_cnt" \in DOMAIN o.resp
       /\ o.resp.existing_cnt = ExistingCount(ClassOf(q), DateOf(q))

\* C1 as stated: the confirmation-required answer also carries the number of
\* existing records for (C, D).
C1_CarriesExistingCount == ForEverySubmission(C1_BlockedWithCount)

\* A roll call was answered 409 for a class and date that have records.
C1_Witness ==
    /\ resp.op = "roll" /\ resp.kind = "need_confirm"
    /\ ExistingCount(resp.class_name, resp.hw_date) > 0

\* ---------------------------------------------------------------- C2
C2_ExactRows(q, o) ==
    (/\ IsStep(o)
     /\ ~Confirmed(q)
     /\ NamesEnrolledStudents(q)
     /\ ExistingCount(ClassOf(q), DateOf(q)) = 0)
    => /\ resp'.kind = "saved"
       /\ homework_records \subseteq homework_records'
       /\ { RowOf(r) : r \in homework_records' \ homework_records } = SubmittedRows(q)

\* C2: when class C has no record for date D, a submission for (C, D) without
\* confirmation (its marks naming enrolled students) succeeds, every record
\* that existed is still there unaltered, and the records it adds are exactly
\* its tuples with a recognized status.
C2_CreatesExactlySubmittedRows == [][ForEverySubmission(C2_ExactRows)]_vars

\* ---------------------------------------------------------------- C3
C3_InPlace(q, o) ==
    /\ UniqDateStudent(o.db.records)
    /\ (Confirmed(q) /\ o.resp.kind = "saved" /\ DistinctSids(q.marks))
       => \A r \in homework_records : \A row \in SubmittedRows(q) :
             (row.hw_date = r.hw_date /\ row.student_id = r.student_id)
             => /\ [r EXCEPT !.status = row.status, !.grade = row.grade,
                             !.updated = TRUE] \in o.db.records
                /\ Cardinality({ r2 \in o.db.records :
                       r2.hw_date = r.hw_date /\ r2.student_id = r.student_id }) = 1

\* C3: there is at most one record per (hw_date, student_id) in every
\* reachable state and after every submission; a confirmed submission that
\* succeeds leaves, for every pair that had a record and that it marks with a
\* recognized status, that same row (same hw_id) holding the submitted status
\* and grade.
C3_UniqueAndInPlace ==
    /\ UniqDateStudent(homework_records)
    /\ ForEverySubmission(C3_InPlace)

\* A saved submission has overwritten a record in place.
C3_Witness ==
    /\ resp.op \in {"hw", "roll"} /\ resp.kind = "saved"
    /\ \E r \in homework_records : r.updated

\* ---------------------------------------------------------------- C4
\* C4: a submission that fails (an upsert of its batch raises) leaves none of
\* its writes in homework_records, on POST /hw and on POST /hw/roll.
C4_FailedSubmissionWritesNothing ==
    [][(resp'.op \in {"hw", "roll"} /\ resp'.kind = "error")
       => homework_records' = homework_records]_vars

\* ---------------------------------------------------------------- C5
C5_Preserved(q, o) ==
    (IsStep(o) /\ ~Confirmed(q))
    => \A r \in homework_records :
          \E r2 \in homework_records' :
              /\ r2.hw_id = r.hw_id
              /\ r2.status = r.status
              /\ r2.grade = r.grade

\* C5: no submission without confirmation changes the status or the grade of
\* a record that existed before it, whatever class name, date and student ids
\* it carries.
C5_UnconfirmedNeverOverwrites == [][ForEverySubmission(C5_Preserved)]_vars

\* ---------------------------------------------------------------- C6
\* The students of class c and the homework records of those students.
StudentsOf(c) == { s \in students : s.class = c }
RecordsOfClass(c) ==
    { r \in homework_records : \E s \in StudentsOf(c) : s.student_id = r.student_id }

\* C6: deleting a class that has N >= 1 students.  Without confirmation no
\* table changes and, unless the count query itself fails, the answer asks for
\* confirmation and reports N.  With confirmation the delete either removes the
\* class row, the N students and exactly their homework records, leaving every
\* other row as it was, or fails and changes nothing.
C6_DeleteClassGateAndCascade ==
    \A req \in DeleteClassRequests :
        \A c \in {ClassOf(req)}, o \in {hw_delete_class(DB, req)} :
            (c # "" /\ Cardinality(StudentsOf(c)) >= 1)
            => /\ ~Confirmed(req)
                  => /\ o.db = DB
                     /\ req.fail_at # 1
                        => /\ o.resp.kind = "need_confirm"
                           /\ o.resp.del_students_cnt = Cardinality(StudentsOf(c))
               /\ Confirmed(req)
                  => /\ o.resp.kind \in {"ok", "failed"}
                     /\ o.resp.kind = "ok" <=> req.fail_at = 0
                     /\ o.resp.kind = "failed" => o.db = DB
                     /\ o.resp.kind = "ok"
                        => /\ o.db.classes = classes \ {c}
                           /\ o.db.students = students \ StudentsOf(c)
                           /\ o.db.records = homework_records \ RecordsOfClass(c)

\* A class was deleted after students and records had been removed, and a
\* student of another class and that student's record are still there.
C6_Witness ==
    /\ resp.op = "delete_class" /\ resp.kind = "ok"
    /\ Cardinality(students) = 1 /\ next_student_id = 3
    /\ Cardinality(homework_records) = 1 /\ next_hw_id = 3
    /\ FkHwStudent(students, homework_records)

\* ---------------------------------------------------------------- C7
\* C7: deleting student s removes s and exactly the records whose student_id
\* is s, changes no other student, record or class, and no record ever
\* references a student that does not exist.
C7_DeleteStudentCascade ==
    /\ FkHwStudent(students, homework_records)
    /\ \A req \in DeleteStudentRequests :
          \A o \in {hw_delete_student(DB, req)} :
              o.resp.kind = "ok"
              => /\ o.db.students =
                       { s \in students : s.student_id # SidOf[req.student_id] }
                 /\ o.db.records =
                       { r \in homework_records : r.student_id # SidOf[req.student_id] }
                 /\ o.db.classes = classes
                 /\ FkHwStudent(o.db.students, o.db.records)

\* A student was deleted, a record went with it, and another student's record
\* is still there.
C7_Witness ==
    /\ resp.op = "delete_student" /\ resp.kind = "ok"
    /\ Cardinality(students) = 1 /\ next_student_id = 3
    /\ Cardinality(homework_records) = 1 /\ next_hw_id = 3

\* ---------------------------------------------------------------- C8
\* Name nm is, ignoring case, the name of a student among studs.
Enrolled(nm, studs) == \E t \in studs : Lower(t.name) = Lower(nm)

\* C8: an import into class C that completes inserts no name that equals,
\* ignoring case, a student already enrolled in C, and inserts no two names
\* equal to each other ignoring case; every candidate not already enrolled is
\* inserted (once); added counts the inserted rows and added + skipped is the
\* number of usable names of the file.
C8_ImportSkipsDuplicates ==
    \A req \in ImportRequests :
        \A o \in {hw_import_students(DB, req)} :
        \A c \in {ClassOf(req)}, new \in {o.db.students \ students},
           names \in {ParseNames(req.upload.rows, req.upload.has_header)} :
            o.resp.kind = "ok"
            => /\ students \subseteq o.db.students
               /\ \A s \in new : s.class = c /\ ~Enrolled(s.name, StudentsOf(c))
               /\ \A s1, s2 \in new : Lower(s1.name) = Lower(s2.name) => s1 = s2
               /\ \A i \in 1..Len(names) :
                     ~Enrolled(names[i], StudentsOf(c)) => Enrolled(names[i], new)
               /\ o.resp.added = Cardinality(new)
               /\ o.resp.added + o.resp.skipped = Len(names)

\* An import added a name and skipped another, and the class holds no two
\* names that are equal ignoring case.
C8_Witness ==
    /\ resp.op = "import" /\ resp.kind = "ok"
    /\ resp.added >= 1 /\ resp.skipped >= 1
    /\ \A s1, s2 \in StudentsOf(resp.class_name) :
          Lower(s1.name) = Lower(s2.name) => s1 = s2

\* ---------------------------------------------------------------- C9
\* C9: an import that passes validation.  If an insert (or the commit) fails,
\* the students table is as before the call and a failure is reported.  The
\* class row is created if absent and committed whatever the inserts do,
\* unless the creation itself fails; and a failed creation changes nothing
\* about which students the call inserts.
C9_ImportRollbackAndClassCreation ==
    \A req \in ImportRequests :
        \A c \in {ClassOf(req)}, o \in {hw_import_students(DB, req)} :
            o.resp.kind \in {"ok", "failed"}
            => /\ o.resp.kind = "failed"
                  => /\ o.db.students = students
                     /\ o.db.next_student_id = next_student_id
               /\ o.db.classes = IF req.class_fail THEN classes ELSE classes \cup {c}
               /\ c \in classes => o.db.classes = classes
               /\ req.class_fail
                  => o.db.students =
                        hw_import_students(DB, [req EXCEPT !.class_fail = FALSE]).db.students
               /\ o.db.records = homework_records

\* An import whose second insert fails has been answered "failed": the first
\* name's row is not in the table and the class row is.
ImportFailsAfterAnInsert(req) ==
    LET names == ParseNames(req.upload.rows, req.upload.has_header)
    IN  /\ req.upload.present /\ req.fail_at = 2 /\ Len(names) = 2
        /\ ~Enrolled(names[1], StudentsOf(ClassOf(req)))
        /\ hw_import_students(DB, req).resp.kind = "failed"

C9_Witness ==
    /\ resp.op = "import" /\ resp.kind = "failed"
    /\ \E req \in ImportRequests :
          /\ ImportFailsAfterAnInsert(req)
          /\ ClassOf(req) \in classes
          /\ hw_import_students(DB, req).db = DB

\* ---------------------------------------------------------------- C10
\* C10: a request rejected by validation changes no table: an import without
\* a class name, without a file or with an empty file name, or whose file has
\* no usable name; add-class without a name; add-student without a name or a
\* class; delete-student without an id; delete-class without a class name.
C10_RejectedRequestChangesNothing ==
    /\ \A req \in ImportRequests :
          (\/ ClassOf(req) = ""
           \/ ~req.upload.present
           \/ req.upload.filename = ""
           \/ Len(ParseNames(req.upload.rows, req.upload.has_header)) = 0)
          => \A o \in {hw_import_students(DB, req)} :
                o.db = DB /\ o.resp.kind \in {"invalid", "nofile", "nonames"}
    /\ \A req \in AddClassRequests :
          ClassOf(req) = ""
          => \A o \in {hw_add_class(DB, req)} :
                o.db = DB /\ o.resp.kind = "invalid"
    /\ \A req \in AddStudentRequests :
          (req.student_name = NoValue \/ req.student_class = NoValue)
          => \A o \in {hw_add_student(DB, req)} :
                o.db = DB /\ o.resp.kind = "invalid"
    /\ \A req \in DeleteStudentRequests :
          req.student_id = NoValue
          => \A o \in {hw_delete_student(DB, req)} :
                o.db = DB /\ o.resp.kind = "invalid"
    /\ \A req \in DeleteClassRequests :
          ClassOf(req) = ""
          => \A o \in {hw_delete_class(DB, req)} :
                o.db = DB /\ o.resp.kind = "invalid"

\* An import of a file without a usable name was rejected and its class has
\* no row in classes.
C10_Witness ==
    /\ resp.op = "import" /\ resp.kind = "nonames"
    /\ classes = {}
    /\ students # {}

\* ---------------------------------------------------------------- C11
\* C11 as stated: a delete-class request that does not carry confirm=yes
\* leaves the classes table unchanged, however many students the class has,
\* zero included.
C11_UnconfirmedNeverDeletesClass ==
    \A req \in DeleteClassRequests :
        \A o \in {hw_delete_class(DB, req)} :
            ~Confirmed(req) => o.db.classes = classes

\* C11 as the code has it: a delete-class request without confirm=yes leaves
\* the classes table unchanged when the class has at least one student; when
\* the class has no student the gate does not apply and the request removes
\* the class row (and nothing else) unless a statement fails.
C11_UnconfirmedDeletesOnlyEmptyClass ==
    \A req \in DeleteClassRequests :
        \A c \in {ClassOf(req)}, o \in {hw_delete_class(DB, req)} :
            ~Confirmed(req)
            => /\ StudentsOf(c) # {} => o.db = DB
               /\ (c # "" /\ StudentsOf(c) = {} /\ req.fail_at = 0)
                  => /\ o.resp.kind = "ok"
                     /\ o.db.classes = classes \ {c}
                     /\ o.db.students = students
                     /\ o.db.records = homework_records
               /\ (c = "" \/ req.fail_at # 0) => o.db = DB

\* An unconfirmed delete of a class with students has just been held back
\* while another class without students is in the classes table.
C11_Witness ==
    /\ resp.op = "delete_class" /\ resp.kind = "need_confirm"
    /\ \E c \in classes : StudentsOf(c) = {}
    /\ \E c \in classes : StudentsOf(c) # {}

\* ---------------------------------------------------------------- C12
\* The date lies within the bounds of the export request; a bound that is
\* missing or empty does not restrict.
C12_InRange(dt, q) ==
    /\ (q.start \in Dates => DayNo[q.start] <= DayNo[dt])
    /\ (q.end \in Dates => DayNo[dt] <= DayNo[q.end])

\* The records of students of the class of request q within its bounds.
C12_Expected(q) ==
    { r \in homework_records :
        /\ \E t \in students : t.student_id = r.student_id /\ t.class = q.class_name
        /\ C12_InRange(r.hw_date, q) }

\* The CSV line of record r.
C12_Line(r) ==
    LET t == CHOOSE x \in students : x.student_id = r.student_id
    IN  << r.hw_date, t.name, t.class, r.status,
           IF r.grade = NoValue THEN "" ELSE r.grade >>

\* C12: the class export for class C with optional start and end answers
\* with the header and then exactly one line per homework record of a student
\* of C whose date lies in [start, end], each record once and nothing else, in
\* ascending date order, and changes no table.
C12_ExportExactRowsInDateOrder ==
    \A q \in ExportRequests :
        /\ hw_export_class_csv(DB, q) # {}
        /\ \A o \in hw_export_class_csv(DB, q) :
              \A data \in {Tail(o.resp.rows)}, exp \in {C12_Expected(q)} :
                  /\ o.db = DB
                  /\ Head(o.resp.rows) = CsvHeader
                  /\ Len(data) = Cardinality(exp)
                  /\ \A r \in exp :
                        Cardinality({ i \in DOMAIN data : data[i] = C12_Line(r) })
                        = Cardinality({ x \in exp : C12_Line(x) = C12_Line(r) })
                  /\ \A i \in DOMAIN data :
                        \E r \in exp : data[i] = C12_Line(r)
                  /\ \A i, j \in DOMAIN data :
                        i < j => DayNo[data[i][1]] <= DayNo[data[j][1]]

\* Class 8A has records on both dates, and the export just answered with
\* the header and the one line of the later date.
C12_Witness ==
    /\ resp.op = "export"
    /\ Len(resp.rows) = 2 /\ resp.rows[2][1] = "2024-05-02" /\ resp.rows[2][3] = "8A"
    /\ \E r1, r2 \in homework_records :
          /\ r1.hw_date = "2024-05-01" /\ r2.hw_date = "2024-05-02"
          /\ \A r \in {r1, r2} :
                \E t \in students : t.student_id = r.student_id /\ t.class = "8A"

\* ---------------------------------------------------------------- C13
\* Record r carries the status and grade connection p submitted for its
\* student.
C13_Submitted(p, r) ==
    \E i \in DOMAIN txns[p].req.marks :
        \E m \in {txns[p].req.marks[i]} :
            /\ Recognized(m.status)
            /\ SidOf[m.student_id] = r.student_id
            /\ r.status = m.status
            /\ r.grade = TxnGrade(txns[p], m.grade)

\* C13: when two confirmed submissions for the same class and date have run
\* concurrently and both have finished, there is one record per (date,
\* student) and every record of that date carries the status and grade of the
\* submission that committed last, never a mix of the two.
C13_LastCommitWins ==
    (\A p \in Procs : txns[p].pc = "done")
    => /\ UniqDateStudent(homework_records)
       /\ \A r \in homework_records :
             r.hw_date = Today => C13_Submitted(last_commit, r)

\* ---------------------------------------------------------------- C14
\* The tuple carries one of the two statuses the workflow knows.
C14_Known(m) == m.status \in {"done", "not_done"}

\* Request q without its tuples of unrecognized status.
C14_WithoutUnknown(q) == [q EXCEPT !.marks = SelectSeq(@, C14_Known)]

\* Tuple i of q is the last one of q with a recognized status for its student.
C14_Effective(q, i) ==
    /\ C14_Known(q.marks[i])
    /\ \A j \in DOMAIN q.marks :
          (j > i /\ C14_Known(q.marks[j]))
          => q.marks[j].student_id # q.marks[i].student_id

\* For request q with outcome o and the outcome o2 of q without its tuples of
\* unrecognized status: a submission that passes the gate ends exactly as if
\* those tuples had not been sent; when every tuple of recognized status
\* names an enrolled student the submission reports success, every such tuple
\* is in the records, and a student named only by unrecognized tuples has the
\* records it had.
C14_Skipped(q, o, o2) ==
    o.resp.kind # "need_confirm"
    => /\ o = o2
       /\ (\A i \in DOMAIN q.marks :
              C14_Known(q.marks[i])
              => \E s \in students : s.student_id = SidOf[q.marks[i].student_id])
          => /\ o.resp.kind = "saved"
             /\ \A i \in DOMAIN q.marks :
                   C14_Effective(q, i)
                   => \E r \in o.db.records :
                         /\ r.hw_date = DateOf(q)
                         /\ r.student_id = SidOf[q.marks[i].student_id]
                         /\ r.status = q.marks[i].status
                         /\ r.grade = (IF q.marks[i].grade = "" THEN NoValue
                                       ELSE q.marks[i].grade)
             /\ \A i \in DOMAIN q.marks :
                   (\A j \in DOMAIN q.marks :
                        C14_Known(q.marks[j])
                        => q.marks[j].student_id # q.marks[i].student_id)
                   => { r \in o.db.records :
                            r.student_id = SidOf[q.marks[i].student_id] }
                      = { r \in homework_records :
                            r.student_id = SidOf[q.marks[i].student_id] }

\* C14: in a submission that passes the gate, a tuple whose status is neither
\* done nor not_done is skipped without error and writes no record, the
\* tuples of recognized status are still written and the submission reports
\* success.
C14_UnrecognizedStatusSkipped ==
    /\ \A q \in HwRequests :
          \A o \in {hw_tracker(DB, q)}, o2 \in {hw_tracker(DB, C14_WithoutUnknown(q))} :
              C14_Skipped(q, o, o2)
    /\ \A q \in RollRequests :
          \A o \in {hw_roll(DB, q)}, o2 \in {hw_roll(DB, C14_WithoutUnknown(q))} :
              C14_Skipped(q, o, o2)

\* A roll call whose first mark has an unrecognized status for an enrolled
\* student and whose second mark has a recognized one has been saved on empty
\* records: the records are what the second mark alone writes.
C14_Witness ==
    /\ resp.kind = "saved"
    /\ \E q \in RollRequests :
          /\ Len(q.marks) = 2
          /\ ~C14_Known(q.marks[1]) /\ C14_Known(q.marks[2])
          /\ \E s \in students : s.student_id = SidOf[q.marks[1].student_id]
          /\ resp = hw_roll([DB EXCEPT !.records = {}, !.next_hw_id = 1], q).resp
          /\ homework_records =
                hw_roll([DB EXCEPT !.records = {}, !.next_hw_id = 1], q).db.records
          /\ homework_records # {}

================================================================
